---- MODULE Spec2Model ----
(***************************************************************************)
(* Analysis pipeline of the chess analyzer:                                *)
(*   - the server analysis route (POST /api/games/[id]/analyze) driving a  *)
(*     ServerStockfishEngine and streaming progress events,                *)
(*   - the client analysis queue (game store + queue-processor effect),    *)
(*   - the browser StockfishEngine client as used by the play view.        *)
(* Five specifications share the module: Spec (one analysis run),           *)
(* QueueSpec (the queue), EngineSpec (one engine client under arbitrary    *)
(* callers), PlaySpec (engine client under the play view) and UtilSpec     *)
(* (the pure functions of analysis-utils and parseEvaluation).             *)
(***************************************************************************)
EXTENDS Integers, Sequences, FiniteSets, TLC

\* ------------------------------------------------------------------------
\* Bounds
\* ------------------------------------------------------------------------
MaxPlies == 2

\* total number of game ids ever passed to enqueueAnalysis
MaxEnqueued == 3

\* number of init / evaluate calls made on one engine client instance
MaxCalls == 3

\* time (in units of 10 s) a pending call is followed for
MaxAge == 7

\* scheduled doEngineMove timeouts that have not run yet
MaxMoveTimers == 2

\* info lines one evaluate call collects
MaxInfo == 1

\* largest winPercentLoss handed to classifyMove, in hundredths of a percent
MaxLoss == 3000

\* longest sequence of info lines handed to parseEvaluation
MaxParseLines == 2

\* largest mate distance and largest centipawn magnitude compared
MaxMate == 1000

MaxCp == 10000

\* ------------------------------------------------------------------------
\* State
\* ------------------------------------------------------------------------
VARIABLES
    \* --- one analysis run (route POST) ---
    moves,        \* gameFull.history({verbose:true}): the played plies (uci strings)
    pc,           \* position of the async start(controller) callback
    i,            \* loop index of the ply loop
    prevResult,   \* let prevResult: the chained evaluation
    analysis,     \* const analysis: MoveAnalysis[]
    events,       \* what send() has enqueued on the stream, in order
    closed,       \* controller.close() has been called
    process,      \* ServerStockfishEngine.process / the spawned child
    thrown,       \* the exception in flight ("" when none)
    evalCount,    \* number of engine.evaluate requests issued
    evalLog,      \* evaluations the engine returned, in order
    saved,        \* db.update(...) has stored the GameAnalysis
    result,       \* const result: GameAnalysis, once built (a sequence of 0 or 1)
    cancelled,    \* the consumer of the response stream has cancelled it / disconnected
    sent,         \* the kinds of command written to the engine's stdin so far
    \* --- the client analysis queue (game store, Home component) ---
    analysisQueue,  \* useGameStore.analysisQueue (game ids, head first)
    isAnalyzing,    \* useGameStore.isAnalyzing
    activeGame,     \* useGameStore.activeGame (0 = null)
    processingRef,  \* processingRef.current
    rendered,       \* the store values the last committed render of Home saw
    depsChanged,    \* a dependency of the processor effect changed since that render
    effectPending,  \* the processor effect is due to run for the last commit
    runs,           \* the runAnalysis calls made so far, in dispatch order
    enqueued,       \* every game id passed to enqueueAnalysis, in call order
    \* --- one engine client instance (StockfishEngine / ServerStockfishEngine) ---
    transport,      \* "worker" (StockfishEngine) or "process" (ServerStockfishEngine)
    worker,         \* this.worker / this.process: "null" or "alive"
    isReady,        \* StockfishEngine.isReady
    messageHandler, \* StockfishEngine.messageHandler: the call whose closure is installed (0 = null)
    lineResolvers,  \* ServerStockfishEngine.lineResolvers: the calls whose handlers are registered
    calls,          \* the promises returned by init / evaluate*: one record per call
    owed,           \* replies the engine has been asked for and not yet printed
    quit,           \* outcome of the last quit() since the worker was created ("none" if not called)
    \* --- the play view holding a StockfishEngine ---
    mounted,        \* PlayView: "no" before the init effect, "yes", "gone" after its cleanup
    engineRef,      \* engineRef.current is set
    phase,          \* useBonziPlayStore.phase
    playerColor,    \* useBonziPlayStore.playerColor
    engineThinking, \* useBonziPlayStore.engineThinking
    turn,           \* gameRef.current.turn()
    moveTimers,     \* setTimeout(() => doEngineMove(), ...) callbacks not yet run
    \* --- one application of a pure function ---
    fnIn,           \* the function applied and its arguments
    fnOut           \* its return value, once it returned (a sequence of 0 or 1)

runVars == <<moves, pc, i, prevResult, analysis, events, closed, process,
             thrown, evalCount, evalLog, saved, result, cancelled, sent>>

queueVars == <<analysisQueue, isAnalyzing, activeGame, processingRef, rendered,
               depsChanged, effectPending, runs, enqueued>>

engineVars == <<transport, worker, isReady, messageHandler, lineResolvers, calls, owed, quit>>

playVars == <<mounted, engineRef, phase, playerColor, engineThinking, turn, moveTimers>>

utilVars == <<fnIn, fnOut>>

vars == <<runVars, queueVars, engineVars, playVars, utilVars>>

\* ------------------------------------------------------------------------
\* Inputs of a run
\* ------------------------------------------------------------------------
\* Played moves in UCI form (move.from + move.to + promotion).
PlayedMoves == {"e2e4", "g1f3"}

\* Tokens the engine can put on its bestmove line ("" = no token at all).
BestMoves == {"e2e4", "(none)", ""}

\* Evaluations (centipawns, White's perspective) the engine can report.
Evals == {-400, -50, 0}

EngineResults == [eval : Evals, bestMove : BestMoves]

NoResult == [eval |-> 0, bestMove |-> ""]

Games == UNION {[1..n -> PlayedMoves] : n \in 0..MaxPlies}

\* ------------------------------------------------------------------------
\* Events of the progress stream
\* ------------------------------------------------------------------------
Progress(current, total) == [type |-> "progress", current |-> current, total |-> total]

Complete == [type |-> "complete", current |-> 0, total |-> 0]

Error == [type |-> "error", current |-> 0, total |-> 0]

IsTerminal(e) == e.type \in {"complete", "error"}

\* ------------------------------------------------------------------------
\* Pure helpers of the ply loop
\* ------------------------------------------------------------------------
\* Math.floor(i / 2) + 1 with the 0-based loop index
MoveNumber(idx) == (idx \div 2) + 1

\* chess.js colour of the ply at 0-based index idx of a game from the start position
ColorOf(idx) == IF idx % 2 = 0 THEN "w" ELSE "b"

\* prevResult = afterResult (the chaining step)
NextPrevResultStale(prev, after) == prev

NextPrevResult(prev, after) == after

\* one evaluate request per ply (after the move); the baseline is counted apart
EvalsAfterPlyTwice(count) == count + 2

EvalsAfterPly(count) == count + 1

\* ------------------------------------------------------------------------
\* analysis-utils: win probability, classification, rating
\* ------------------------------------------------------------------------
Min(a, b) == IF a <= b THEN a ELSE b

Max(a, b) == IF a >= b THEN a ELSE b

\* cpToWinPercent, in hundredths of a percent:
\*   50 + 50 * (2 / (1 + Math.exp(-0.00368208 * clamped)) - 1)
\* tabulated for the evaluations the engine of this model reports
cpToWinPercent(cp) ==
    LET clamped == Max(-10000, Min(10000, cp))
    IN  CASE clamped = -400 -> 1865
          [] clamped = -50  -> 4541
          [] clamped = 0    -> 5000

\* winPercentLoss of the route's ply loop, in hundredths of a percent
WinPercentLoss(color, evalBefore, evalAfter) ==
    LET wpBefore == cpToWinPercent(evalBefore)
        wpAfter  == cpToWinPercent(evalAfter)
    IN  IF color = "w"
        THEN Max(0, wpBefore - wpAfter)
        ELSE Max(0, (10000 - wpBefore) - (10000 - wpAfter))

\* classifyMove(winPercentLoss, isBest), the loss in hundredths of a percent
classifyMoveStrict(winPercentLoss, isBest) ==
    IF isBest THEN "best"
    ELSE IF winPercentLoss < 200 THEN "great"
    ELSE IF winPercentLoss < 500 THEN "good"
    ELSE IF winPercentLoss < 1000 THEN "inaccuracy"
    ELSE IF winPercentLoss < 2000 THEN "mistake"
    ELSE "blunder"

classifyMove(winPercentLoss, isBest) ==
    IF isBest THEN "best"
    ELSE IF winPercentLoss <= 200 THEN "great"
    ELSE IF winPercentLoss <= 500 THEN "good"
    ELSE IF winPercentLoss <= 1000 THEN "inaccuracy"
    ELSE IF winPercentLoss <= 2000 THEN "mistake"
    ELSE "blunder"

\* Math.log(clamped / (100 - clamped)) in units of 10^-6, for clamped from
\* 1.0 to 99.5 in steps of 0.1 (entry k is for clamped = (k + 9) / 10)
LogOdds == <<
    -4595120, -4498799, -4410776, -4329721, -4254599, -4184591, -4119037, -4057396, -3999220, -3944133,
    -3891820, -3842009, -3794467, -3748992, -3705409, -3663562, -3623315, -3584547, -3547151, -3511031,
    -3476099, -3442277, -3409496, -3377691, -3346803, -3316780, -3287572, -3259135, -3231428, -3204413,
    -3178054, -3152319, -3127178, -3102603, -3078568, -3055049, -3032022, -3009467, -2987364, -2965694,
    -2944439, -2923583, -2903111, -2883007, -2863259, -2843852, -2824774, -2806015, -2787562, -2769406,
    -2751535, -2733942, -2716616, -2699549, -2682732, -2666159, -2649822, -2633713, -2617825, -2602153,
    -2586689, -2571429, -2556366, -2541494, -2526809, -2512306, -2497979, -2483824, -2469836, -2456012,
    -2442347, -2428837, -2415478, -2402267, -2389200, -2376273, -2363483, -2350828, -2338303, -2325907,
    -2313635, -2301486, -2289456, -2277543, -2265745, -2254058, -2242481, -2231012, -2219647, -2208385,
    -2197225, -2186163, -2175197, -2164327, -2153550, -2142863, -2132267, -2121758, -2111335, -2100997,
    -2090741, -2080567, -2070473, -2060457, -2050519, -2040656, -2030867, -2021151, -2011507, -2001934,
    -1992430, -1982994, -1973626, -1964323, -1955085, -1945910, -1936798, -1927748, -1918759, -1909830,
    -1900959, -1892146, -1883390, -1874690, -1866045, -1857455, -1848918, -1840434, -1832002, -1823621,
    -1815290, -1807009, -1798777, -1790593, -1782457, -1774368, -1766325, -1758327, -1750374, -1742466,
    -1734601, -1726779, -1719000, -1711263, -1703567, -1695912, -1688296, -1680721, -1673185, -1665687,
    -1658228, -1650806, -1643422, -1636074, -1628762, -1621486, -1614246, -1607040, -1599868, -1592731,
    -1585627, -1578557, -1571519, -1564513, -1557539, -1550597, -1543687, -1536806, -1529957, -1523137,
    -1516347, -1509587, -1502856, -1496153, -1489479, -1482832, -1476214, -1469622, -1463058, -1456521,
    -1450010, -1443525, -1437067, -1430633, -1424226, -1417843, -1411485, -1405151, -1398842, -1392556,
    -1386294, -1380056, -1373841, -1367649, -1361479, -1355332, -1349207, -1343104, -1337023, -1330964,
    -1324925, -1318908, -1312912, -1306936, -1300981, -1295046, -1289131, -1283235, -1277360, -1271503,
    -1265666, -1259848, -1254049, -1248269, -1242506, -1236763, -1231037, -1225329, -1219639, -1213966,
    -1208311, -1202673, -1197052, -1191448, -1185861, -1180290, -1174736, -1169198, -1163676, -1158170,
    -1152680, -1147205, -1141746, -1136302, -1130873, -1125460, -1120061, -1114677, -1109308, -1103953,
    -1098612, -1093286, -1087974, -1082676, -1077391, -1072121, -1066864, -1061620, -1056390, -1051173,
    -1045969, -1040778, -1035599, -1030434, -1025281, -1020141, -1015013, -1009897, -1004794, -999702,
    -994623, -989555, -984499, -979455, -974422, -969401, -964391, -959392, -954404, -949427,
    -944462, -939507, -934562, -929629, -924706, -919793, -914891, -909999, -905117, -900246,
    -895384, -890532, -885690, -880858, -876035, -871222, -866419, -861625, -856840, -852064,
    -847298, -842540, -837792, -833053, -828322, -823600, -818887, -814182, -809486, -804799,
    -800119, -795448, -790786, -786131, -781485, -776846, -772216, -767593, -762978, -758371,
    -753772, -749180, -744596, -740019, -735450, -730888, -726333, -721785, -717245, -712711,
    -708185, -703666, -699153, -694648, -690149, -685657, -681171, -676692, -672220, -667754,
    -663294, -658841, -654394, -649954, -645519, -641091, -636669, -632252, -627842, -623438,
    -619039, -614646, -610260, -605878, -601503, -597133, -592768, -588409, -584055, -579707,
    -575364, -571026, -566694, -562367, -558045, -553728, -549416, -545109, -540806, -536509,
    -532217, -527929, -523646, -519368, -515095, -510826, -506561, -502301, -498046, -493795,
    -489548, -485306, -481068, -476834, -472604, -468379, -464158, -459940, -455727, -451518,
    -447312, -443111, -438913, -434719, -430529, -426343, -422160, -417981, -413805, -409634,
    -405465, -401300, -397139, -392981, -388826, -384674, -380526, -376381, -372239, -368101,
    -363965, -359833, -355704, -351577, -347454, -343333, -339216, -335101, -330989, -326880,
    -322773, -318670, -314569, -310470, -306374, -302281, -298190, -294102, -290016, -285932,
    -281851, -277772, -273696, -269622, -265550, -261480, -257412, -253346, -249283, -245221,
    -241162, -237105, -233049, -228995, -224944, -220894, -216846, -212799, -208755, -204712,
    -200671, -196631, -192593, -188557, -184522, -180488, -176456, -172426, -168397, -164369,
    -160343, -156318, -152294, -148271, -144250, -140229, -136210, -132192, -128175, -124159,
    -120144, -116130, -112117, -108105, -104094, -100083, -96074, -92065, -88057, -84049,
    -80043, -76037, -72031, -68026, -64022, -60018, -56015, -52012, -48009, -44007,
    -40005, -36004, -32003, -28002, -24001, -20001, -16000, -12000, -8000, -4000,
    0, 4000, 8000, 12000, 16000, 20001, 24001, 28002, 32003, 36004,
    40005, 44007, 48009, 52012, 56015, 60018, 64022, 68026, 72031, 76037,
    80043, 84049, 88057, 92065, 96074, 100083, 104094, 108105, 112117, 116130,
    120144, 124159, 128175, 132192, 136210, 140229, 144250, 148271, 152294, 156318,
    160343, 164369, 168397, 172426, 176456, 180488, 184522, 188557, 192593, 196631,
    200671, 204712, 208755, 212799, 216846, 220894, 224944, 228995, 233049, 237105,
    241162, 245221, 249283, 253346, 257412, 261480, 265550, 269622, 273696, 277772,
    281851, 285932, 290016, 294102, 298190, 302281, 306374, 310470, 314569, 318670,
    322773, 326880, 330989, 335101, 339216, 343333, 347454, 351577, 355704, 359833,
    363965, 368101, 372239, 376381, 380526, 384674, 388826, 392981, 397139, 401300,
    405465, 409634, 413805, 417981, 422160, 426343, 430529, 434719, 438913, 443111,
    447312, 451518, 455727, 459940, 464158, 468379, 472604, 476834, 481068, 485306,
    489548, 493795, 498046, 502301, 506561, 510826, 515095, 519368, 523646, 527929,
    532217, 536509, 540806, 545109, 549416, 553728, 558045, 562367, 566694, 571026,
    575364, 579707, 584055, 588409, 592768, 597133, 601503, 605878, 610260, 614646,
    619039, 623438, 627842, 632252, 636669, 641091, 645519, 649954, 654394, 658841,
    663294, 667754, 672220, 676692, 681171, 685657, 690149, 694648, 699153, 703666,
    708185, 712711, 717245, 721785, 726333, 730888, 735450, 740019, 744596, 749180,
    753772, 758371, 762978, 767593, 772216, 776846, 781485, 786131, 790786, 795448,
    800119, 804799, 809486, 814182, 818887, 823600, 828322, 833053, 837792, 842540,
    847298, 852064, 856840, 861625, 866419, 871222, 876035, 880858, 885690, 890532,
    895384, 900246, 905117, 909999, 914891, 919793, 924706, 929629, 934562, 939507,
    944462, 949427, 954404, 959392, 964391, 969401, 974422, 979455, 984499, 989555,
    994623, 999702, 1004794, 1009897, 1015013, 1020141, 1025281, 1030434, 1035599, 1040778,
    1045969, 1051173, 1056390, 1061620, 1066864, 1072121, 1077391, 1082676, 1087974, 1093286,
    1098612, 1103953, 1109308, 1114677, 1120061, 1125460, 1130873, 1136302, 1141746, 1147205,
    1152680, 1158170, 1163676, 1169198, 1174736, 1180290, 1185861, 1191448, 1197052, 1202673,
    1208311, 1213966, 1219639, 1225329, 1231037, 1236763, 1242506, 1248269, 1254049, 1259848,
    1265666, 1271503, 1277360, 1283235, 1289131, 1295046, 1300981, 1306936, 1312912, 1318908,
    1324925, 1330964, 1337023, 1343104, 1349207, 1355332, 1361479, 1367649, 1373841, 1380056,
    1386294, 1392556, 1398842, 1405151, 1411485, 1417843, 1424226, 1430633, 1437067, 1443525,
    1450010, 1456521, 1463058, 1469622, 1476214, 1482832, 1489479, 1496153, 1502856, 1509587,
    1516347, 1523137, 1529957, 1536806, 1543687, 1550597, 1557539, 1564513, 1571519, 1578557,
    1585627, 1592731, 1599868, 1607040, 1614246, 1621486, 1628762, 1636074, 1643422, 1650806,
    1658228, 1665687, 1673185, 1680721, 1688296, 1695912, 1703567, 1711263, 1719000, 1726779,
    1734601, 1742466, 1750374, 1758327, 1766325, 1774368, 1782457, 1790593, 1798777, 1807009,
    1815290, 1823621, 1832002, 1840434, 1848918, 1857455, 1866045, 1874690, 1883390, 1892146,
    1900959, 1909830, 1918759, 1927748, 1936798, 1945910, 1955085, 1964323, 1973626, 1982994,
    1992430, 2001934, 2011507, 2021151, 2030867, 2040656, 2050519, 2060457, 2070473, 2080567,
    2090741, 2100997, 2111335, 2121758, 2132267, 2142863, 2153550, 2164327, 2175197, 2186163,
    2197225, 2208385, 2219647, 2231012, 2242481, 2254058, 2265745, 2277543, 2289456, 2301486,
    2313635, 2325907, 2338303, 2350828, 2363483, 2376273, 2389200, 2402267, 2415478, 2428837,
    2442347, 2456012, 2469836, 2483824, 2497979, 2512306, 2526809, 2541494, 2556366, 2571429,
    2586689, 2602153, 2617825, 2633713, 2649822, 2666159, 2682732, 2699549, 2716616, 2733942,
    2751535, 2769406, 2787562, 2806015, 2824774, 2843852, 2863259, 2883007, 2903111, 2923583,
    2944439, 2965694, 2987364, 3009467, 3032022, 3055049, 3078568, 3102603, 3127178, 3152319,
    3178054, 3204413, 3231428, 3259135, 3287572, 3316780, 3346803, 3377691, 3409496, 3442277,
    3476099, 3511031, 3547151, 3584547, 3623315, 3663562, 3705409, 3748992, 3794467, 3842009,
    3891820, 3944133, 3999220, 4057396, 4119037, 4184591, 4254599, 4329721, 4410776, 4498799,
    4595120, 4701490, 4820282, 4954821, 5109978, 5293305 >>

\* const bounded = Math.max(200, Math.min(2900, raw)), raw in units of 5 * 10^-6
BoundedNoCeiling(raw) == Max(40000000, raw)

Bounded(raw) == Max(40000000, Min(580000000, raw))

\* accuracyToRating(accuracy), the accuracy in tenths of a percent:
\* raw = 590 * log + 700, in units of 5 * 10^-6 to stay within 32 bits;
\* Math.round(bounded / 25) * 25
accuracyToRating(accuracy) ==
    LET clamped == Max(10, Min(995, accuracy))
        raw     == 118 * LogOdds[clamped - 9] + 140000000
        bounded == Bounded(raw)
    IN  ((bounded + 2500000) \div 5000000) * 25

\* uciToSan(fen, uci): "" when there is no move token, otherwise the
\* notation chess.js gives the move (or the token itself when it is refused)
\* in the position fen; a position of the replayed game is identified by the
\* number of plies played to reach it
uciToSanAlways(fen, uci) == "san@" \o ToString(fen) \o ":" \o uci

uciToSan(fen, uci) ==
    IF uci = "" \/ uci = "(none)" THEN "" ELSE "san@" \o ToString(fen) \o ":" \o uci

\* const isPlayedBest = move.from + move.to + (move.promotion ?? "") === bestMove
IsPlayedBestNever(uci, bestMove) == FALSE

IsPlayedBest(uci, bestMove) == uci = bestMove

\* calculateAccuracy(moves), in tenths of a percent: 100 for no moves;
\* otherwise the blended mean is not computed here, any value of its range
\* (rounded to 0.1) may come out
AccuracyOutcomes(ms) == IF ms = <<>> THEN {1000} ELSE {873, 1000}

MovesOf(an, color) == SelectSeq(an, LAMBDA m : m.color = color)

\* const result: GameAnalysis = {...} after the ply loop
Summaries(an) ==
    { [ moves |-> an,
        whiteAccuracy |-> wa,
        blackAccuracy |-> ba,
        whiteRating |-> accuracyToRating(wa),
        blackRating |-> accuracyToRating(ba) ] :
      wa \in AccuracyOutcomes(MovesOf(an, "w")),
      ba \in AccuracyOutcomes(MovesOf(an, "b")) }

\* the result of the empty-game branch
EmptyResult ==
    [ moves |-> <<>>, whiteAccuracy |-> 1000, blackAccuracy |-> 1000,
      whiteRating |-> 0, blackRating |-> 0 ]

\* if (moves.length === 0)
ShortCircuitNever(ms) == FALSE

ShortCircuit(ms) == Len(ms) = 0

\* const fenBefore = replay.fen(), read before replay.move(move.san) of ply idx
FenAfter(idx) == idx + 1

FenBefore(idx) == idx

\* the MoveAnalysis pushed for ply idx (0-based)
MoveRecordBook(idx, move, prev, after) ==
    [ moveNumber |-> MoveNumber(idx),
      color      |-> ColorOf(idx),
      uci        |-> move,
      evalBefore |-> prev.eval,
      evalAfter  |-> after.eval,
      bestMove   |-> prev.bestMove,
      bestMoveSan |-> uciToSan(FenBefore(idx), prev.bestMove),
      classification |-> IF idx = 0 THEN "book" ELSE "best" ]

MoveRecord(idx, move, prev, after) ==
    [ moveNumber |-> MoveNumber(idx),
      color      |-> ColorOf(idx),
      uci        |-> move,
      evalBefore |-> prev.eval,
      evalAfter  |-> after.eval,
      bestMove   |-> prev.bestMove,
      bestMoveSan |-> uciToSan(FenBefore(idx), prev.bestMove),
      classification |->
          classifyMove(WinPercentLoss(ColorOf(idx), prev.eval, after.eval),
                       IsPlayedBest(move, prev.bestMove)) ]

\* ------------------------------------------------------------------------
\* ServerStockfishEngine.quit() and the unwinding of start(controller)
\* ------------------------------------------------------------------------
\* Outcomes of engine.quit(): "ok" kills the child; "throws" is send("quit")
\* raising on a child that is already dead (the case the browser client
\* guards with try/catch), in which case kill() is not reached.
QuitOutcomes == {"ok", "throws"}

ProcessAfterQuit(proc, outcome) ==
    IF proc = "running" /\ outcome = "ok" THEN "killed" ELSE proc

ThrownAfterQuit(exc, proc, outcome) ==
    IF proc = "running" /\ outcome = "throws" THEN "quit" ELSE exc

\* send(data): controller.enqueue raises a TypeError once the consumer has
\* cancelled the stream, and nothing is delivered
Sent(evs, e) == IF cancelled THEN evs ELSE Append(evs, e)

\* finally { engine.quit() }  then  catch { send(error) }  then  close();
\* on a cancelled stream the send in the catch block, or close(), raises and
\* start(controller) ends with that exception
Unwind(exc, evs, outcome) ==
    LET exc2 == ThrownAfterQuit(exc, process, outcome)
    IN  /\ process' = ProcessAfterQuit(process, outcome)
        /\ sent' = IF process = "running" /\ outcome = "ok"
                   THEN sent \cup {"quit"} ELSE sent
        /\ thrown' = IF cancelled THEN "enqueue" ELSE exc2
        /\ events' = IF exc2 # "" THEN Sent(evs, Error) ELSE evs
        /\ closed' = ~cancelled
        /\ pc' = "done"

\* a failure of engine.init(): it is awaited outside the inner try, so only
\* the outer catch runs
InitFailed(exc) ==
    /\ thrown' = IF cancelled THEN "enqueue" ELSE exc
    /\ events' = Sent(events, Error)
    /\ closed' = ~cancelled
    /\ pc' = "done"

\* ------------------------------------------------------------------------
\* Init
\* ------------------------------------------------------------------------
RunIdle ==
    /\ pc = "start"
    /\ i = 0
    /\ prevResult = NoResult
    /\ analysis = <<>>
    /\ events = <<>>
    /\ closed = FALSE
    /\ process = "null"
    /\ thrown = ""
    /\ evalCount = 0
    /\ evalLog = <<>>
    /\ saved = FALSE
    /\ result = <<>>
    /\ cancelled = FALSE
    /\ sent = {}

CallIds == 1..MaxCalls

UnusedCall ==
    [kind |-> "none", status |-> "unused", wait |-> "", armed |-> FALSE,
     remaining |-> 0, age |-> 0, stopped |-> FALSE, ready |-> FALSE,
     lines |-> <<>>, result |-> <<>>, from |-> 0]

\* a freshly constructed engine client
EngineIdle(tr) ==
    /\ transport = tr
    /\ worker = "null"
    /\ isReady = FALSE
    /\ messageHandler = 0
    /\ lineResolvers = {}
    /\ calls = [c \in CallIds |-> UnusedCall]
    /\ owed = <<>>
    /\ quit = "none"

\* useBonziPlayStore initial state, PlayView not yet mounted
PlayIdle ==
    /\ mounted = "no"
    /\ engineRef = FALSE
    /\ phase = "setup"
    /\ playerColor = "w"
    /\ engineThinking = FALSE
    /\ turn = "w"
    /\ moveTimers = 0

\* no function applied
UtilIdle ==
    /\ fnIn = [fn |-> "none"]
    /\ fnOut = <<>>

QueueIdle ==
    /\ analysisQueue = <<>>
    /\ isAnalyzing = FALSE
    /\ activeGame = 0
    /\ processingRef = FALSE
    /\ rendered = [isAnalyzing |-> FALSE, queueLen |-> 0, activeGame |-> 0]
    /\ depsChanged = FALSE
    /\ effectPending = FALSE
    /\ runs = <<>>
    /\ enqueued = <<>>

Init ==
    /\ moves \in Games
    /\ RunIdle
    /\ QueueIdle
    /\ EngineIdle("process")
    /\ PlayIdle
    /\ UtilIdle

\* ------------------------------------------------------------------------
\* Actions of a run
\* ------------------------------------------------------------------------
\* start(controller) up to the first await: parse, short-circuit or announce
Start ==
    /\ UNCHANGED <<queueVars, engineVars, playVars, utilVars>>
    /\ pc = "start"
    /\ IF ShortCircuit(moves)
       THEN /\ result' = <<EmptyResult>>
            /\ events' = Append(events, Complete)
            /\ closed' = TRUE
            /\ pc' = "done"
       ELSE /\ events' = Append(events, Progress(0, Len(moves)))
            /\ closed' = closed
            /\ pc' = "spawn"
            /\ UNCHANGED result
    /\ UNCHANGED <<moves, i, prevResult, analysis, process, thrown, evalCount,
                   evalLog, saved, cancelled, sent>>

\* engine.init(): resolveStockfishPath + spawn, then "uci" is written
InitSpawn ==
    /\ UNCHANGED <<queueVars, engineVars, playVars, utilVars>>
    /\ pc = "spawn"
    /\ \/ /\ process' = "running"
          /\ sent' = sent \cup {"uci"}
          /\ pc' = "uci"
          /\ UNCHANGED <<events, closed, thrown>>
       \/ /\ InitFailed("init")
          /\ UNCHANGED <<process, sent>>
    /\ UNCHANGED <<moves, i, prevResult, analysis, evalCount, evalLog, saved, result,
                   cancelled>>

\* await sendAndWaitFor("uci", "uciok", 30_000); then setoption and "isready"
HandshakeUci ==
    /\ UNCHANGED <<queueVars, engineVars, playVars, utilVars>>
    /\ pc = "uci"
    /\ \/ /\ pc' = "isready"
          /\ sent' = sent \cup {"setoption", "isready"}
          /\ UNCHANGED <<events, closed, thrown>>
       \/ /\ InitFailed("timeout")
          /\ UNCHANGED sent
    /\ UNCHANGED <<moves, i, prevResult, analysis, process, evalCount, evalLog, saved,
                   result, cancelled>>

\* await sendAndWaitFor("isready", "readyok", 30_000); on success the route
\* goes on to issue the baseline evaluate
HandshakeReady ==
    /\ UNCHANGED <<queueVars, engineVars, playVars, utilVars>>
    /\ pc = "isready"
    /\ \/ /\ pc' = "evalBase"
          /\ evalCount' = evalCount + 1
          /\ sent' = sent \cup {"position", "go"}
          /\ UNCHANGED <<events, closed, thrown>>
       \/ /\ InitFailed("timeout")
          /\ UNCHANGED <<evalCount, sent>>
    /\ UNCHANGED <<moves, i, prevResult, analysis, process, evalLog, saved, result,
                   cancelled>>

\* let prevResult = await engine.evaluate(replay.fen(), depth); then the first
\* iteration plays its move and issues the next evaluate
EvaluateBaseline ==
    /\ UNCHANGED <<queueVars, engineVars, playVars, utilVars>>
    /\ pc = "evalBase"
    /\ \/ \E r \in EngineResults :
            /\ prevResult' = r
            /\ evalLog' = Append(evalLog, r)
            /\ IF Len(moves) > 0
               THEN /\ evalCount' = EvalsAfterPly(evalCount)
                    /\ pc' = "evalPly"
                    /\ UNCHANGED result
               ELSE /\ evalCount' = evalCount
                    /\ pc' = "save"
                    /\ \E g \in Summaries(analysis) : result' = <<g>>
            /\ UNCHANGED <<events, closed, thrown, process, sent>>
       \/ \E q \in QuitOutcomes :
            /\ Unwind("timeout", events, q)
            /\ UNCHANGED <<prevResult, evalLog, evalCount, result>>
    /\ UNCHANGED <<moves, i, analysis, saved, cancelled>>

\* const afterResult = await engine.evaluate(...): rest of iteration i, and
\* either the next iteration up to its await or the db.update after the loop;
\* on a cancelled stream send(progress) raises and the run unwinds
EvaluatePly ==
    /\ UNCHANGED <<queueVars, engineVars, playVars, utilVars>>
    /\ pc = "evalPly"
    /\ \/ \E r \in EngineResults :
            /\ analysis' = Append(analysis, MoveRecord(i, moves[i + 1], prevResult, r))
            /\ prevResult' = NextPrevResult(prevResult, r)
            /\ evalLog' = Append(evalLog, r)
            /\ IF cancelled
               THEN /\ \E q \in QuitOutcomes : Unwind("enqueue", events, q)
                    /\ UNCHANGED <<i, evalCount, result>>
               ELSE /\ events' = Append(events, Progress(i + 1, Len(moves)))
                    /\ i' = i + 1
                    /\ IF i + 1 < Len(moves)
                       THEN /\ evalCount' = EvalsAfterPly(evalCount)
                            /\ pc' = "evalPly"
                            /\ UNCHANGED result
                       ELSE /\ evalCount' = evalCount
                            /\ pc' = "save"
                            /\ \E g \in Summaries(analysis') : result' = <<g>>
                    /\ UNCHANGED <<closed, thrown, process, sent>>
       \/ \E q \in QuitOutcomes :
            /\ Unwind("timeout", events, q)
            /\ UNCHANGED <<analysis, prevResult, evalLog, i, evalCount, result>>
    /\ UNCHANGED <<moves, saved, cancelled>>

\* await db.update(games)...; send(complete); finally quit; close
Persist ==
    /\ UNCHANGED <<queueVars, engineVars, playVars, utilVars>>
    /\ pc = "save"
    /\ \E q \in QuitOutcomes :
         \/ /\ saved' = TRUE
            /\ IF cancelled
               THEN Unwind("enqueue", events, q)
               ELSE Unwind("", Append(events, Complete), q)
         \/ /\ saved' = saved
            /\ Unwind("db", events, q)
    /\ UNCHANGED <<moves, i, prevResult, analysis, evalCount, evalLog, result, cancelled>>

\* the consumer cancels the response body or the connection drops; the
\* stream has no cancel callback, so no code of the route runs
ConsumerCancel ==
    /\ UNCHANGED <<queueVars, engineVars, playVars, utilVars>>
    /\ pc \notin {"start", "done"}
    /\ ~cancelled
    /\ cancelled' = TRUE
    /\ UNCHANGED <<moves, pc, i, prevResult, analysis, events, closed, process, thrown,
                   evalCount, evalLog, saved, result, sent>>

Next ==
    \/ Start
    \/ InitSpawn
    \/ HandshakeUci
    \/ HandshakeReady
    \/ EvaluateBaseline
    \/ EvaluatePly
    \/ Persist
    \/ ConsumerCancel

Spec == Init /\ [][Next]_vars

\* ------------------------------------------------------------------------
\* Properties of one analysis run (Spec)
\* ------------------------------------------------------------------------
TerminalCount == Cardinality({k \in DOMAIN events : IsTerminal(events[k])})

HasComplete == \E k \in DOMAIN events : events[k].type = "complete"

RunCompleted == pc = "done" /\ HasComplete /\ Len(moves) >= 1

\* C1: chaining invariant. In every run over N >= 1 plies that ends with a
\* complete event, evalBefore of the first ply is the eval of the baseline
\* evaluation of the starting position, and evalBefore(i+1) = evalAfter(i)
\* for all consecutive plies, whatever the engine returned.
C1_Chaining ==
    RunCompleted =>
        /\ Len(analysis) = Len(moves)
        /\ analysis[1].evalBefore = evalLog[1].eval
        /\ \A k \in 1..(Len(analysis) - 1) :
               analysis[k + 1].evalBefore = analysis[k].evalAfter

C1_Witness ==
    /\ RunCompleted
    /\ Len(analysis) >= 2
    /\ analysis[1].evalBefore # analysis[1].evalAfter
    /\ analysis[2].evalBefore = analysis[1].evalAfter

\* C2 (as claimed): a successful run over N plies emits exactly N progress
\* events with current = 1..N, then exactly one complete event, and nothing
\* after it.
C2_ProgressOneToN ==
    RunCompleted =>
        events = [k \in 1..(Len(moves) + 1) |->
                     IF k <= Len(moves) THEN Progress(k, Len(moves)) ELSE Complete]

\* C3 (as claimed): on every path the stream carries exactly one terminal
\* event, nothing is emitted after it, and the stream is then closed.
C3_OneTerminalEvent ==
    /\ TerminalCount <= 1
    /\ \A k \in DOMAIN events : IsTerminal(events[k]) => k = Len(events)
    /\ pc = "done" => (closed /\ TerminalCount = 1)

\* C4 (as claimed): an engine process started by a run has been terminated
\* by the time the run ends, on every path.
C4_EngineCleanup == pc = "done" => process # "running"

\* C5: a run over N >= 1 plies that completes has issued exactly N+1
\* evaluate requests: the baseline and one per played move.
C5_EvalCount == RunCompleted => evalCount = Len(moves) + 1

C5_Witness == RunCompleted /\ Len(moves) >= 2 /\ evalCount = Len(moves) + 1

\* C11: for every ply of a run, classification = best exactly when the
\* played move (uci) equals the engine's best move recorded for that ply,
\* whatever the win-percent loss of the move.
C11_BestIffPlayedBest ==
    \A k \in DOMAIN analysis :
        (analysis[k].classification = "best") <=> (analysis[k].uci = analysis[k].bestMove)

\* a ply that loses more than 20% win probability and is still "best", and
\* one that loses nothing and is not
C11_Witness ==
    /\ Len(analysis) >= 2
    /\ \E k \in DOMAIN analysis :
         /\ analysis[k].uci = analysis[k].bestMove
         /\ analysis[k].classification = "best"
         /\ WinPercentLoss(analysis[k].color, analysis[k].evalBefore,
                           analysis[k].evalAfter) > 2000
    /\ \E k \in DOMAIN analysis :
         /\ analysis[k].uci # analysis[k].bestMove
         /\ analysis[k].classification = "great"

\* C14 (as claimed): analysing a game with an empty move list yields
\* moves = [], whiteAccuracy = blackAccuracy = 100 and whiteRating =
\* blackRating = accuracyToRating(100).
C14_EmptyGameResult ==
    (Len(moves) = 0 /\ pc = "done") =>
        /\ Len(result) = 1
        /\ result[1].moves = <<>>
        /\ result[1].whiteAccuracy = 1000
        /\ result[1].blackAccuracy = 1000
        /\ result[1].whiteRating = accuracyToRating(1000)
        /\ result[1].blackRating = accuracyToRating(1000)

\* C15: for an empty move list the run short-circuits: no engine is spawned
\* or initialised, no evaluate request is issued, and the stream carries
\* the single complete event and is closed.
C15_EmptyShortCircuit ==
    Len(moves) = 0 =>
        /\ process = "null"
        /\ evalCount = 0
        /\ pc \in {"start", "done"}
        /\ pc = "done" => (events = <<Complete>> /\ closed)

C15_Witness == Len(moves) = 0 /\ pc = "done" /\ events = <<Complete>> /\ closed

\* C20 (run part): a ply whose recorded best move is the empty token or
\* "(none)" has an empty best-move notation and is never classified best,
\* and recording it raises no error in the run.
C20_NoMoveToken ==
    \A k \in DOMAIN analysis :
        analysis[k].bestMove \in {"", "(none)"} =>
            /\ analysis[k].bestMoveSan = ""
            /\ analysis[k].classification # "best"
            /\ (Len(analysis) = k /\ pc \in {"evalPly", "save"}) => thrown = ""

\* a run that ends with complete although the engine gave no move token
C20_Witness ==
    /\ RunCompleted
    /\ thrown = ""
    /\ \E k \in DOMAIN analysis : analysis[k].bestMove = "(none)"
    /\ \E k \in DOMAIN analysis : analysis[k].bestMove = ""

\* C21 (as claimed): once the stream's consumer has cancelled, a stop command
\* is sent to the running engine by the time the run ends, and the run issues
\* no further evaluate request.
C21_Cancellation ==
    [][ cancelled =>
          /\ evalCount' = evalCount
          /\ (process = "running" /\ pc' = "done") => "stop" \in sent' ]_vars

\* C22: no MoveAnalysis recorded by a run is classified brilliant or book,
\* whatever the engine returned and whatever the game.
C22_NoBrilliantOrBook ==
    \A k \in DOMAIN analysis : analysis[k].classification \notin {"brilliant", "book"}

\* a completed run whose plies got two different classifications
C22_Witness ==
    /\ RunCompleted
    /\ Len(analysis) = 2
    /\ analysis[1].classification = "blunder"
    /\ analysis[2].classification = "best"

\* C24: the best move recorded for ply k is the bestmove of the evaluation
\* of the position before ply k, and its notation is the conversion of that
\* move in that pre-move position.
C24_BestMoveOfPositionBefore ==
    \A k \in DOMAIN analysis :
        /\ analysis[k].bestMove = evalLog[k].bestMove
        /\ analysis[k].bestMoveSan = uciToSan(k - 1, evalLog[k].bestMove)

\* a completed run where the evaluations before and after ply 2 name
\* different best moves and the one before it is a real move
C24_Witness ==
    /\ RunCompleted
    /\ Len(analysis) = 2
    /\ evalLog[2].bestMove = "e2e4"
    /\ evalLog[3].bestMove # "e2e4"
    /\ analysis[2].bestMoveSan = uciToSan(1, "e2e4")

\* C28 (as claimed): complete is emitted only once the GameAnalysis has been
\* written; when the write fails the stream carries an error event and no
\* complete event, and the engine has been terminated.
C28_CompleteAfterSave ==
    [][ /\ HasComplete' => saved'
        /\ (pc = "save" /\ pc' = "done" /\ ~saved') =>
              /\ ~HasComplete'
              /\ \E k \in DOMAIN events' : events'[k] = Error
              /\ process' # "running" ]_vars

\* ========================================================================
\* The client analysis queue (QueueSpec)
\* ========================================================================
\* ids of the games in the store
GameIds == {1, 2}

\* lists handed to enqueueAnalysis by one call (single import, bulk import)
GameLists == UNION {[1..n -> GameIds] : n \in 1..2}

\* enqueueAnalysis: analysisQueue: [...state.analysisQueue, ...games]
EnqueuedQueuePrepend(queue, games) == games \o queue

EnqueuedQueue(queue, games) == queue \o games

\* dequeueAnalysis: const [next, ...rest] = queue
DequeuedNextLast(queue) == queue[Len(queue)]

DequeuedNext(queue) == Head(queue)

DequeuedRestLast(queue) == SubSeq(queue, 1, Len(queue) - 1)

DequeuedRest(queue) == Tail(queue)

\* dequeueAnalysis(): the returned entry (0 is undefined) and the queue left
dequeueAnalysis(queue) ==
    IF Len(queue) = 0
    THEN [next |-> 0, rest |-> queue]
    ELSE [next |-> DequeuedNext(queue), rest |-> DequeuedRest(queue)]

\* the early return of the processor effect
ProcessorBlockedQueueOnly == rendered.queueLen = 0

ProcessorBlocked ==
    rendered.isAnalyzing \/ rendered.queueLen = 0 \/ processingRef

\* a runAnalysis call that has started and whose promise has not settled
RunActive(k) == runs[k].stage \in {"fetch", "stream", "refetch", "afterComplete"}

ActiveRuns == {k \in DOMAIN runs : RunActive(k)}

Dispatched == [k \in DOMAIN runs |-> runs[k].game]

SetStage(k, stage) == [runs EXCEPT ![k].stage = stage]

QueueInit ==
    /\ moves = <<>>
    /\ RunIdle
    /\ QueueIdle
    /\ EngineIdle("worker")
    /\ PlayIdle
    /\ UtilIdle

\* ---- user actions ----
\* handleSubmit after a successful import: setActiveGame + enqueueAnalysis([g])
\* handleBulkImport: setActiveGame(imported[0]) + enqueueAnalysis(imported)
ImportGames ==
    /\ \E games \in GameLists :
         /\ Len(enqueued) + Len(games) <= MaxEnqueued
         /\ activeGame' = games[1]
         /\ analysisQueue' = EnqueuedQueue(analysisQueue, games)
         /\ enqueued' = enqueued \o games
    /\ depsChanged' = TRUE
    /\ UNCHANGED <<isAnalyzing, processingRef, rendered, effectPending, runs>>
    /\ UNCHANGED <<runVars, engineVars, playVars, utilVars>>

\* handleAnalyze: if (activeGame) enqueueAnalysis([activeGame])
HandleAnalyze ==
    /\ activeGame # 0
    /\ Len(enqueued) + 1 <= MaxEnqueued
    /\ analysisQueue' = EnqueuedQueue(analysisQueue, <<activeGame>>)
    /\ enqueued' = Append(enqueued, activeGame)
    /\ depsChanged' = TRUE
    /\ UNCHANGED <<isAnalyzing, activeGame, processingRef, rendered, effectPending, runs>>
    /\ UNCHANGED <<runVars, engineVars, playVars, utilVars>>

\* sidebar: setActiveGame(game) / setActiveGame(null)
SelectGame ==
    /\ \E g \in GameIds \cup {0} :
         /\ g # activeGame
         /\ activeGame' = g
    /\ depsChanged' = TRUE
    /\ UNCHANGED <<analysisQueue, isAnalyzing, processingRef, rendered, effectPending,
                   runs, enqueued>>
    /\ UNCHANGED <<runVars, engineVars, playVars, utilVars>>

\* ---- React: commit of a render of Home, then its processor effect ----
Render ==
    /\ depsChanged
    /\ ~effectPending
    /\ rendered' = [isAnalyzing |-> isAnalyzing, queueLen |-> Len(analysisQueue),
                    activeGame |-> activeGame]
    /\ depsChanged' = FALSE
    /\ effectPending' = TRUE
    /\ UNCHANGED <<analysisQueue, isAnalyzing, activeGame, processingRef, runs, enqueued>>
    /\ UNCHANGED <<runVars, engineVars, playVars, utilVars>>

\* the queue-processor effect, including the synchronous head of runAnalysis
\* (setIsAnalyzing(true), ..., up to the await of fetch)
QueueProcessorEffect ==
    /\ effectPending
    /\ effectPending' = FALSE
    /\ IF ProcessorBlocked
       THEN UNCHANGED <<analysisQueue, isAnalyzing, activeGame, processingRef,
                        depsChanged, runs>>
       ELSE LET dequeued == dequeueAnalysis(analysisQueue)
            IN  IF dequeued.next = 0
                THEN UNCHANGED <<analysisQueue, isAnalyzing, activeGame, processingRef,
                                 depsChanged, runs>>
                ELSE /\ processingRef' = TRUE
                     /\ analysisQueue' = dequeued.rest
                     /\ activeGame' = IF rendered.activeGame = 0
                                      THEN dequeued.next
                                      ELSE activeGame
                     /\ isAnalyzing' = TRUE
                     /\ runs' = Append(runs, [game |-> dequeued.next,
                                              stage |-> "fetch"])
                     /\ depsChanged' = TRUE
    /\ UNCHANGED <<rendered, enqueued>>
    /\ UNCHANGED <<runVars, engineVars, playVars, utilVars>>

\* ---- runAnalysis after its first await ----
\* finally { setIsAnalyzing(false); ... }: the promise settles
RunFinally(k) ==
    /\ isAnalyzing' = FALSE
    /\ depsChanged' = (depsChanged \/ isAnalyzing)
    /\ runs' = SetStage(k, "settled")

\* await fetch(`/api/games/${game.id}/analyze`)
RunFetch ==
    /\ \E k \in DOMAIN runs :
         /\ runs[k].stage = "fetch"
         /\ \/ /\ runs' = SetStage(k, "stream")
               /\ UNCHANGED <<isAnalyzing, depsChanged>>
            \/ RunFinally(k)
    /\ UNCHANGED <<analysisQueue, activeGame, processingRef, rendered, effectPending,
                   enqueued>>
    /\ UNCHANGED <<runVars, engineVars, playVars, utilVars>>

\* a complete event is read: await fetch(`/api/games/${game.id}`)
RunComplete ==
    /\ \E k \in DOMAIN runs :
         /\ runs[k].stage = "stream"
         /\ runs' = SetStage(k, "refetch")
    /\ UNCHANGED <<analysisQueue, isAnalyzing, activeGame, processingRef, rendered,
                   depsChanged, effectPending, enqueued>>
    /\ UNCHANGED <<runVars, engineVars, playVars, utilVars>>

\* if (gameRes.ok) setActiveGame(updatedGame)
RunRefetched ==
    /\ \E k \in DOMAIN runs :
         /\ runs[k].stage = "refetch"
         /\ runs' = SetStage(k, "afterComplete")
         /\ \/ /\ activeGame' = runs[k].game
               /\ depsChanged' = TRUE
            \/ UNCHANGED <<activeGame, depsChanged>>
    /\ UNCHANGED <<analysisQueue, isAnalyzing, processingRef, rendered, effectPending,
                   enqueued>>
    /\ UNCHANGED <<runVars, engineVars, playVars, utilVars>>

\* an error event is read (throw), or the stream ends (done): finally
RunEnd ==
    /\ \E k \in DOMAIN runs :
         /\ runs[k].stage \in {"stream", "afterComplete"}
         /\ RunFinally(k)
    /\ UNCHANGED <<analysisQueue, activeGame, processingRef, rendered, effectPending,
                   enqueued>>
    /\ UNCHANGED <<runVars, engineVars, playVars, utilVars>>

\* runAnalysis(next).finally(() => { processingRef.current = false })
ResetProcessing ==
    /\ \E k \in DOMAIN runs :
         /\ runs[k].stage = "settled"
         /\ runs' = SetStage(k, "reset")
    /\ processingRef' = FALSE
    /\ UNCHANGED <<analysisQueue, isAnalyzing, activeGame, rendered, depsChanged,
                   effectPending, enqueued>>
    /\ UNCHANGED <<runVars, engineVars, playVars, utilVars>>

QueueNext ==
    \/ ImportGames
    \/ HandleAnalyze
    \/ SelectGame
    \/ Render
    \/ QueueProcessorEffect
    \/ RunFetch
    \/ RunComplete
    \/ RunRefetched
    \/ RunEnd
    \/ ResetProcessing

QueueSpec == QueueInit /\ [][QueueNext]_vars

\* ------------------------------------------------------------------------
\* Properties of the queue (QueueSpec)
\* ------------------------------------------------------------------------
\* C8: engine capacity 1. At most one runAnalysis call is between its start
\* and its settlement at any time.
C8_AtMostOneRun == Cardinality(ActiveRuns) <= 1

C8_Witness ==
    /\ Len(runs) >= 2
    /\ RunActive(2)
    /\ ~RunActive(1)
    /\ Len(analysisQueue) > 0

\* C9: FIFO dispatch without preemption. A dispatch takes the game that was
\* enqueued earliest among those not yet dispatched, and only while no run
\* is active; an enqueue appends behind the entries already queued and
\* touches neither the runs nor the dispatch order.
C9_Fifo ==
    [][ /\ (Len(runs') > Len(runs)) =>
              /\ Len(runs') = Len(runs) + 1
              /\ Dispatched' = Append(Dispatched, enqueued[Len(runs) + 1])
              /\ ActiveRuns = {}
              /\ analysisQueue' = Tail(analysisQueue)
        /\ (enqueued' # enqueued) =>
              /\ runs' = runs
              /\ Len(analysisQueue') > Len(analysisQueue)
              /\ SubSeq(analysisQueue', 1, Len(analysisQueue)) = analysisQueue
        /\ enqueued' = Dispatched' \o analysisQueue'
      ]_vars

C9_Witness ==
    /\ Len(runs) >= 2
    /\ runs[1].game # runs[2].game
    /\ Len(enqueued) = 3
    /\ runs[1].stage = "reset"

C29_Conservation ==
    [][ /\ enqueued' = Dispatched' \o analysisQueue'
        /\ Len(runs') <= Len(enqueued')
        /\ (Len(analysisQueue') < Len(analysisQueue)) =>
              /\ analysisQueue' = Tail(analysisQueue)
              /\ runs' = Append(runs, [game |-> Head(analysisQueue), stage |-> "fetch"])
        /\ (Len(runs') > Len(runs)) => analysisQueue' = Tail(analysisQueue)
        /\ dequeueAnalysis(<<>>) = [next |-> 0, rest |-> <<>>]
        /\ dequeueAnalysis(analysisQueue') =
              IF analysisQueue' = <<>>
              THEN [next |-> 0, rest |-> <<>>]
              ELSE [next |-> Head(analysisQueue'), rest |-> Tail(analysisQueue')]
      ]_vars

\* the same game was enqueued twice and each entry dispatched once, with a
\* third entry still queued
C29_Witness ==
    /\ Len(runs) = 2
    /\ runs[1].game = runs[2].game
    /\ Len(analysisQueue) = 1
    /\ Len(enqueued) = 3

\* C30 (as claimed): reading the complete event of a queued game changes the
\* selected game only if that game is the one selected; while another game
\* is selected it stays selected.
C30_CompleteKeepsSelection ==
    [][ \A k \in DOMAIN runs :
          (runs[k].stage = "refetch" /\ runs'[k].stage = "afterComplete"
             /\ activeGame # runs[k].game)
          => activeGame' = activeGame ]_vars

\* C10 (as claimed): the queue never stalls, i.e. it is never the case that
\* entries are pending, no run is active and nothing is left that would run
\* the processor effect again.
Stalled ==
    /\ Len(analysisQueue) > 0
    /\ ActiveRuns = {}
    /\ ~depsChanged
    /\ ~effectPending
    /\ \A k \in DOMAIN runs : runs[k].stage # "settled"

C10_NoStall == ~Stalled

\* ------------------------------------------------------------------------
\* Engine output and parseEvaluation (both clients parse alike)
\* ------------------------------------------------------------------------
\* A line of engine output: head is its first word; depth is -1 when the
\* line has no depth field; score is "cp", "mate" or "none"; move is the
\* token after "bestmove" ("" when there is none).
InfoLine(depth, score, value, pv) ==
    [head |-> "info", depth |-> depth, score |-> score, value |-> value,
     pv |-> pv, move |-> ""]

BestMoveLine(move) ==
    [head |-> "bestmove", depth |-> -1, score |-> "none", value |-> 0,
     pv |-> <<>>, move |-> move]

\* let bestEval = 0; let mate = null; let pv = []; let depth = 0; let bestMove = ""
NoEvaluation == [eval |-> 0, bestMove |-> "", pv |-> <<>>, depth |-> 0, mate |-> <<>>]

Reverse(ls) == [k \in 1..Len(ls) |-> ls[Len(ls) + 1 - k]]

\* bestEval = mate > 0 ? 100_000 - mate : -100_000 - mate
MateEvalMirrored(mate) == IF mate > 0 THEN 100000 - mate ELSE -100000 + mate

MateEval(mate) == IF mate > 0 THEN 100000 - mate ELSE -100000 - mate

\* one pass of the loop over infoLines
ScanLine(acc, line) ==
    IF line.depth = -1 \/ line.depth < acc.depth THEN acc
    ELSE [acc EXCEPT
            !.depth = line.depth,
            !.eval = IF line.score = "mate" THEN MateEval(line.value)
                     ELSE IF line.score = "cp" THEN line.value ELSE @,
            !.mate = IF line.score = "mate" THEN <<line.value>>
                     ELSE IF line.score = "cp" THEN <<>> ELSE @,
            !.pv = IF line.pv # <<>> THEN line.pv ELSE @]

RECURSIVE ScanInfo(_, _)
ScanInfo(acc, ls) ==
    IF ls = <<>> THEN acc ELSE ScanInfo(ScanLine(acc, Head(ls)), Tail(ls))

\* parseEvaluation(lines)
parseEvaluation(lines) ==
    LET infoLines == Reverse(SelectSeq(lines,
                         LAMBDA l : l.head = "info" /\ l.score # "none"))
        scanned == ScanInfo(NoEvaluation, infoLines)
        bestMoveLines == SelectSeq(lines, LAMBDA l : l.head = "bestmove")
    IN  [scanned EXCEPT
            !.bestMove = IF bestMoveLines # <<>> THEN bestMoveLines[1].move ELSE ""]

\* ========================================================================
\* One engine client instance under arbitrary callers (EngineSpec)
\* ========================================================================
\* Time is counted in units of 10 s.
\* waitFor("uciok", 10_000) / waitFor("readyok", 10_000)
HandshakeWait == 1

\* waitFor(token, timeoutMs = 30_000)
DefaultWait == 3

\* evaluateWithClock: Math.min(engineTime + 10_000, 30_000)
ClockBuffer == 1

ClockCap == 3

\* ServerStockfishEngine: sendAndWaitFor(..., 30_000)
ServerHandshakeWait == 3

\* ServerStockfishEngine: collectUntil(token, timeoutMs = 60_000)
ServerCollectWait == 6

\* the mover's remaining clock time handed to evaluateWithClock
EngineTimes == {0, 3}

SafetyUnitsNoCap(engineTime) == engineTime + ClockBuffer

SafetyUnits(engineTime) == Min(engineTime + ClockBuffer, ClockCap)

EvalKinds == {"evaluate", "evaluateFromMoves", "evaluateWithClock"}

\* the evaluate-type methods each client offers
KindsOf(tr) == IF tr = "worker" THEN EvalKinds ELSE {"evaluate"}

HandshakeTimeout(tr) == IF tr = "worker" THEN HandshakeWait ELSE ServerHandshakeWait

\* the timeout the call passes to waitFor / collectUntil
WaitTimeout(tr, kind, engineTime) ==
    IF tr = "process" THEN ServerCollectWait
    ELSE IF kind = "evaluateWithClock" THEN SafetyUnits(engineTime)
    ELSE DefaultWait

Pending(c) == calls[c].status = "pending"

HasUnused == \E c \in CallIds : calls[c].status = "unused"

NextCall == CHOOSE c \in CallIds :
                /\ calls[c].status = "unused"
                /\ \A d \in CallIds : d < c => calls[d].status # "unused"

\* the handlers a line from the engine is passed to
Handlers ==
    IF transport = "worker"
    THEN IF messageHandler = 0 THEN {} ELSE {messageHandler}
    ELSE lineResolvers

\* sendCommand / send: this.worker?.postMessage(cmd): a reply is owed only
\* if there is a worker
OwedAfterSend(w, q, reply) == IF w = "alive" THEN Append(q, reply) ELSE q

\* waitFor: this.messageHandler = ...; waitForLine / collectUntil: lineResolvers.push
InstallHandler(c) ==
    IF transport = "worker"
    THEN /\ messageHandler' = c
         /\ UNCHANGED lineResolvers
    ELSE /\ lineResolvers' = lineResolvers \cup {c}
         /\ UNCHANGED messageHandler

\* init(): createLocalWorker / spawn, then the first handshake wait
InitCall(c) ==
    /\ calls[c].status = "unused"
    /\ \/ /\ worker' = "alive"
          /\ owed' = Append(owed, [token |-> "uciok", call |-> c])
          /\ InstallHandler(c)
          /\ calls' = [calls EXCEPT ![c] =
                 [UnusedCall EXCEPT !.kind = "init", !.status = "pending",
                                    !.wait = "uciok", !.armed = TRUE,
                                    !.remaining = HandshakeTimeout(transport)]]
          /\ quit' = "none"
       \/ \* new Worker(...) / resolveStockfishPath() throws
          /\ calls' = [calls EXCEPT ![c] =
                 [UnusedCall EXCEPT !.kind = "init", !.status = "rejected"]]
          /\ UNCHANGED <<worker, owed, messageHandler, lineResolvers, quit>>
    /\ UNCHANGED <<transport, isReady>>

\* assertReady(): only the browser client checks
NotReady == transport = "worker" /\ ~(isReady /\ worker = "alive")

\* the Ready state of the lifecycle: init() has completed and quit() has not
\* been called since
Ready ==
    /\ worker = "alive"
    /\ quit = "none"
    /\ IF transport = "worker" THEN isReady
       ELSE \E c \in CallIds : calls[c].kind = "init" /\ calls[c].status = "resolved"

\* evaluate / evaluateFromMoves / evaluateWithClock
EvaluateCall(c, kind, engineTime) ==
    /\ calls[c].status = "unused"
    /\ IF NotReady
       THEN /\ calls' = [calls EXCEPT ![c] =
                   [UnusedCall EXCEPT !.kind = kind, !.status = "rejected",
                                      !.ready = Ready]]
            /\ UNCHANGED <<owed, messageHandler, lineResolvers>>
       ELSE /\ owed' = OwedAfterSend(worker, owed, [token |-> "bestmove", call |-> c])
            /\ InstallHandler(c)
            /\ calls' = [calls EXCEPT ![c] =
                   [UnusedCall EXCEPT !.kind = kind, !.status = "pending",
                                      !.wait = "bestmove", !.armed = TRUE,
                                      !.remaining = WaitTimeout(transport, kind, engineTime),
                                      !.ready = Ready]]
    /\ UNCHANGED <<transport, worker, isReady, quit>>

\* stop() of the browser client: sendCommand("stop") reaches the searches
\* in progress
StopCall ==
    /\ transport = "worker"
    /\ worker = "alive"
    /\ calls' = [c \in CallIds |->
                   IF \E k \in DOMAIN owed : owed[k].call = c /\ owed[k].token = "bestmove"
                   THEN [calls[c] EXCEPT !.stopped = TRUE]
                   ELSE calls[c]]
    /\ UNCHANGED <<transport, worker, isReady, messageHandler, lineResolvers, owed, quit>>

\* whether quit() can raise: the browser client wraps sendCommand("quit")
\* in try/catch, the server client calls send("quit") unguarded
QuitOutcomesOf(tr, w) ==
    IF tr = "process" /\ w = "alive" THEN QuitOutcomes ELSE {"ok"}

\* quit(): terminate / kill the worker, this.worker = null, isReady = false;
\* when send("quit") raises, kill() and the assignment are not reached
QuitCall ==
    /\ \E q \in QuitOutcomesOf(transport, worker) :
         /\ quit' = q
         /\ IF q = "ok"
            THEN /\ worker' = "null"
                 /\ isReady' = FALSE
                 /\ owed' = <<>>
            ELSE UNCHANGED <<worker, isReady, owed>>
    /\ UNCHANGED <<transport, messageHandler, lineResolvers, calls>>

\* what a handler does with a line containing its token: clearTimeout and
\* resolve; init() then goes on to its second wait, with a new timer
\* an evaluate call resolves to parseEvaluation of the lines it collected;
\* the timer is cleared and the time spent pending is no longer followed
\* (from: the call whose search printed the line that resolved this one)
Advance(call, line, search) ==
    IF call.kind = "init" /\ call.wait = "uciok"
    THEN [call EXCEPT !.wait = "readyok", !.armed = TRUE,
                      !.remaining = HandshakeTimeout(transport)]
    ELSE IF call.kind = "init"
    THEN [call EXCEPT !.status = "resolved", !.wait = "", !.armed = FALSE, !.remaining = 0, !.age = 0]
    ELSE [call EXCEPT !.status = "resolved", !.wait = "", !.armed = FALSE, !.remaining = 0, !.age = 0,
                      !.lines = <<>>,
                      !.result = <<parseEvaluation(Append(call.lines, line))>>,
                      !.from = search]

Matches(c, token) == c \in Handlers /\ Pending(c) /\ calls[c].wait = token

\* the lines the engine prints: one kind of info line while it searches,
\* and the line carrying the token it owes
EngineInfoLines == {InfoLine(12, "cp", 35, <<"e2e4">>)}

TokenLines(token) ==
    IF token = "bestmove" THEN {BestMoveLine(m) : m \in BestMoves}
    ELSE {[head |-> token, depth |-> -1, score |-> "none", value |-> 0,
           pv |-> <<>>, move |-> ""]}

\* the handlers that keep the lines they see (waitFor of an evaluate call,
\* collectUntil)
Collectors == {c \in Handlers : Pending(c) /\ calls[c].kind \in EvalKinds}

\* the engine prints an info line of the search in progress
EngineInfo ==
    /\ worker = "alive"
    /\ owed # <<>>
    /\ Head(owed).token = "bestmove"
    /\ Collectors # {}
    /\ \A c \in Collectors : Len(calls[c].lines) < MaxInfo
    /\ \E line \in EngineInfoLines :
         calls' = [c \in CallIds |->
                     IF c \in Collectors
                     THEN [calls[c] EXCEPT !.lines = Append(@, line)]
                     ELSE calls[c]]
    /\ UNCHANGED <<transport, worker, isReady, messageHandler, lineResolvers, owed, quit>>

\* worker.onmessage / process.stdout.on("data"): the engine prints the next
\* reply it owes and the registered handlers see it
EngineEmit ==
    /\ worker = "alive"
    /\ owed # <<>>
    /\ \E line \in TokenLines(Head(owed).token) :
       LET hit == {c \in CallIds : Matches(c, Head(owed).token)}
           done == {c \in hit : Advance(calls[c], line, Head(owed).call).status = "resolved"}
           more == hit \ done
       IN  /\ calls' = [c \in CallIds |->
                          IF c \in hit THEN Advance(calls[c], line, Head(owed).call)
                          ELSE calls[c]]
           /\ owed' = IF more = {} THEN Tail(owed)
                      ELSE Append(Tail(owed), [token |-> "readyok", call |-> CHOOSE c \in more : TRUE])
           /\ messageHandler' = IF messageHandler \in done THEN 0 ELSE messageHandler
           /\ lineResolvers' = lineResolvers \ done
           /\ isReady' = IF transport = "worker" /\ \E c \in done : calls[c].kind = "init"
                         THEN TRUE ELSE isReady
    /\ UNCHANGED <<transport, worker, quit>>

\* the setTimeout callback of waitFor / waitForLine / collectUntil, and for
\* init() of the browser client the catch that terminates the worker
TimerFire(c) ==
    /\ calls[c].armed
    /\ calls[c].remaining = 0
    /\ calls' = [calls EXCEPT ![c].status = "rejected", ![c].wait = "",
                              ![c].armed = FALSE, ![c].lines = <<>>]
    /\ IF transport = "worker"
       THEN /\ messageHandler' = 0
            /\ UNCHANGED lineResolvers
            /\ IF calls[c].kind = "init"
               THEN worker' = "null" /\ owed' = <<>>
               ELSE UNCHANGED <<worker, owed>>
       ELSE /\ lineResolvers' = lineResolvers \ {c}
            /\ UNCHANGED <<messageHandler, worker, owed>>
    /\ UNCHANGED <<transport, isReady, quit>>

\* 10 s pass: no timer is overdue
TimePasses ==
    /\ \E c \in CallIds : Pending(c)
    /\ \A c \in CallIds : calls[c].armed => calls[c].remaining > 0
    /\ \A c \in CallIds : Pending(c) => calls[c].age < MaxAge
    /\ calls' = [c \in CallIds |->
                   IF Pending(c)
                   THEN [calls[c] EXCEPT !.age = @ + 1,
                                         !.remaining = IF calls[c].armed THEN @ - 1 ELSE @]
                   ELSE calls[c]]
    /\ UNCHANGED <<transport, worker, isReady, messageHandler, lineResolvers, owed, quit>>

EngineInit ==
    /\ moves = <<>>
    /\ RunIdle
    /\ QueueIdle
    /\ \E tr \in {"worker", "process"} : EngineIdle(tr)
    /\ PlayIdle
    /\ UtilIdle

CallerInit ==
    /\ HasUnused
    /\ \A c \in CallIds : calls[c].kind # "init"
    /\ InitCall(NextCall)
    /\ UNCHANGED <<runVars, queueVars, playVars, utilVars>>

CallerEvaluate ==
    /\ HasUnused
    /\ \E kind \in KindsOf(transport), t \in EngineTimes : EvaluateCall(NextCall, kind, t)
    /\ UNCHANGED <<runVars, queueVars, playVars, utilVars>>

CallerStop ==
    /\ StopCall
    /\ UNCHANGED <<runVars, queueVars, playVars, utilVars>>

CallerQuit ==
    /\ QuitCall
    /\ UNCHANGED <<runVars, queueVars, playVars, utilVars>>

EngineOutput ==
    /\ EngineEmit
    /\ UNCHANGED <<runVars, queueVars, playVars, utilVars>>

EngineProgress ==
    /\ EngineInfo
    /\ UNCHANGED <<runVars, queueVars, playVars, utilVars>>

Timeout ==
    /\ \E c \in CallIds : TimerFire(c)
    /\ UNCHANGED <<runVars, queueVars, playVars, utilVars>>

Tick ==
    /\ TimePasses
    /\ UNCHANGED <<runVars, queueVars, playVars, utilVars>>

EngineNext ==
    \/ CallerInit
    \/ CallerEvaluate
    \/ CallerStop
    \/ CallerQuit
    \/ EngineOutput
    \/ EngineProgress
    \/ Timeout
    \/ Tick

EngineSpec == EngineInit /\ [][EngineNext]_vars

\* ------------------------------------------------------------------------
\* Properties of the engine client (EngineSpec)
\* ------------------------------------------------------------------------
\* the time within which a call of each kind has to settle
Bound(c) ==
    IF calls[c].kind = "init" THEN 2 * HandshakeTimeout(transport)
    ELSE IF transport = "process" THEN ServerCollectWait
    ELSE IF calls[c].kind = "evaluateWithClock" THEN ClockCap
    ELSE DefaultWait

\* C7: no unbounded wait. Every pending init / evaluate / evaluateFromMoves /
\* evaluateWithClock call still has a timer that fires no later than the
\* call's timeout bound, and no call is pending beyond its bound, whatever
\* the engine prints, also after quit() and after the message handler was
\* replaced or cleared by another call.
C7_BoundedWait ==
    \A c \in CallIds :
        Pending(c) => /\ calls[c].armed
                      /\ calls[c].age + calls[c].remaining <= Bound(c)

\* a call that was still pending after quit() or after losing its handler
\* and was rejected by its own timer when its bound was reached
C7_Witness ==
    \E c \in CallIds :
        /\ calls[c].kind \in EvalKinds
        /\ calls[c].status = "rejected"
        /\ calls[c].age = Bound(c)
        /\ worker = "null"

\* the engine prints a bestmove line in this step
BestMoveEmitted ==
    /\ worker = "alive"
    /\ worker' = "alive"
    /\ owed # <<>>
    /\ Head(owed).token = "bestmove"
    /\ owed' = Tail(owed)

\* C17 (as claimed): when stop() was issued while an evaluate call is
\* pending, the call resolves as soon as the engine prints its bestmove
\* line, its timer is cleared, and the value is the evaluation parsed from
\* the info lines collected so far and that line.
C17_StopResolves ==
    [][\A c \in CallIds :
          (Pending(c) /\ calls[c].stopped /\ BestMoveEmitted) =>
              /\ calls'[c].status = "resolved"
              /\ ~calls'[c].armed
              /\ \E m \in BestMoves :
                    calls'[c].result =
                        <<parseEvaluation(Append(calls[c].lines, BestMoveLine(m)))>>]_vars

\* C27 (as claimed): an evaluate-type call never resolves with the bestmove
\* line of an earlier search on the same instance that timed out and was
\* neither stopped nor followed by quit.
C27_OwnSearchOnly ==
    [][\A c \in CallIds :
          (Pending(c) /\ calls'[c].status = "resolved" /\ calls[c].kind \in EvalKinds) =>
              \A a \in CallIds \ {c} :
                  (calls[a].status = "rejected" /\ ~calls[a].stopped /\ quit = "none")
                      => calls'[c].from # a]_vars

\* C18 (as claimed): quit() never throws and leaves the client terminated
\* (no worker / process held, not ready), whatever state it is called in.
C18_QuitSafe ==
    /\ quit # "throws"
    /\ quit = "ok" => (worker = "null" /\ ~isReady)

\* C19 (as claimed): an evaluate-type call made on a client that is not
\* Ready (init() not completed, failed or timed out, or quit() called)
\* never returns an EngineEvaluation.
C19_UnusableUnlessReady ==
    \A c \in CallIds :
        (calls[c].kind \in EvalKinds /\ ~calls[c].ready) => calls[c].status # "resolved"

\* ========================================================================
\* The play view and its engine client (PlaySpec)
\* ========================================================================
Other(color) == IF color = "w" THEN "b" ELSE "w"

\* what doEngineMove does with a resolved evaluation while phase = "playing":
\* no usable bestMove, chess.move() refusing it, the move played, or the
\* move played and ending the game
MoveOutcomes == {"none", "refused", "moved", "over"}

PlayInit ==
    /\ moves = <<>>
    /\ RunIdle
    /\ QueueIdle
    /\ EngineIdle("worker")
    /\ PlayIdle
    /\ UtilIdle

\* useEffect(() => { const engine = new StockfishEngine(); engine.init()... }, [])
MountEffect ==
    /\ mounted = "no"
    /\ mounted' = "yes"
    /\ InitCall(NextCall)
    /\ UNCHANGED <<engineRef, phase, playerColor, engineThinking, turn, moveTimers>>
    /\ UNCHANGED <<runVars, queueVars, utilVars>>

\* the cleanup of the init effect: mounted = false; engine.quit(); engineRef.current = null
Unmount ==
    /\ mounted = "yes"
    /\ mounted' = "gone"
    /\ QuitCall
    /\ engineRef' = FALSE
    /\ UNCHANGED <<phase, playerColor, engineThinking, turn, moveTimers>>
    /\ UNCHANGED <<runVars, queueVars, utilVars>>

\* the guard at the top of doEngineMove
EngineMoveSkipped == ~engineRef \/ phase # "playing"

\* handleStart: startGame(); if the player is black the engine moves first
HandleStart ==
    /\ mounted = "yes"
    /\ phase = "setup"
    /\ \E color \in {"w", "b"} :
         /\ playerColor' = color
         /\ moveTimers' = IF color = "b" THEN moveTimers + 1 ELSE moveTimers
         /\ color = "b" => moveTimers < MaxMoveTimers
    /\ phase' = "playing"
    /\ engineThinking' = FALSE
    /\ turn' = "w"
    /\ UNCHANGED <<mounted, engineRef>>
    /\ UNCHANGED <<runVars, queueVars, engineVars, utilVars>>

\* handlePieceDrop: a legal move of the player; then game over or the
\* engine's reply is scheduled
HandlePieceDrop ==
    /\ mounted = "yes"
    /\ phase = "playing"
    /\ ~engineThinking
    /\ turn = playerColor
    /\ turn' = Other(turn)
    /\ \/ /\ phase' = "game_over"
          /\ UNCHANGED moveTimers
       \/ /\ moveTimers < MaxMoveTimers
          /\ moveTimers' = moveTimers + 1
          /\ UNCHANGED phase
    /\ UNCHANGED <<mounted, engineRef, playerColor, engineThinking>>
    /\ UNCHANGED <<runVars, queueVars, engineVars, utilVars>>

\* handleResign, and tickClock -> flagTimeout: setGameOver
HandleResign ==
    /\ mounted = "yes"
    /\ phase = "playing"
    /\ phase' = "game_over"
    /\ UNCHANGED <<mounted, engineRef, playerColor, engineThinking, turn, moveTimers>>
    /\ UNCHANGED <<runVars, queueVars, engineVars, utilVars>>

\* handlePlayAgain: resetGame()
HandlePlayAgain ==
    /\ mounted = "yes"
    /\ phase = "game_over"
    /\ phase' = "setup"
    /\ engineThinking' = FALSE
    /\ turn' = "w"
    /\ UNCHANGED <<mounted, engineRef, playerColor, moveTimers>>
    /\ UNCHANGED <<runVars, queueVars, engineVars, utilVars>>

\* a scheduled doEngineMove runs, up to its await of evaluateWithClock
DoEngineMove ==
    /\ moveTimers > 0
    /\ moveTimers' = moveTimers - 1
    /\ IF EngineMoveSkipped
       THEN UNCHANGED <<engineThinking, engineVars>>
       ELSE /\ HasUnused
            /\ \E t \in EngineTimes : EvaluateCall(NextCall, "evaluateWithClock", t)
            /\ engineThinking' = ~NotReady
    /\ UNCHANGED <<mounted, engineRef, phase, playerColor, turn>>
    /\ UNCHANGED <<runVars, queueVars, utilVars>>

\* the rest of doEngineMove once its evaluation has resolved
EngineMoveResolved ==
    /\ engineThinking' = FALSE
    /\ IF phase # "playing"
       THEN UNCHANGED <<phase, turn>>
       ELSE \E outcome \in MoveOutcomes :
              /\ turn' = IF outcome \in {"moved", "over"} THEN Other(turn) ELSE turn
              /\ phase' = IF outcome = "over" THEN "game_over" ELSE phase

\* the engine prints a line; init().then(...) and doEngineMove continue
PlayEngineOutput ==
    /\ EngineEmit
    /\ engineRef' = IF /\ \E c \in CallIds : calls[c].kind = "init" /\ Pending(c)
                                              /\ calls'[c].status = "resolved"
                       /\ mounted = "yes"
                    THEN TRUE ELSE engineRef
    /\ IF \E c \in CallIds : calls[c].kind \in EvalKinds /\ Pending(c)
                               /\ calls'[c].status = "resolved"
       THEN EngineMoveResolved
       ELSE UNCHANGED <<phase, turn, engineThinking>>
    /\ UNCHANGED <<mounted, playerColor, moveTimers>>
    /\ UNCHANGED <<runVars, queueVars, utilVars>>

\* the engine prints an info line while doEngineMove awaits
PlayEngineInfo ==
    /\ EngineInfo
    /\ UNCHANGED <<runVars, queueVars, playVars, utilVars>>

\* a waitFor timer fires; doEngineMove's catch / finally run
PlayTimeout ==
    /\ \E c \in CallIds :
         /\ TimerFire(c)
         /\ engineThinking' = IF calls[c].kind \in EvalKinds THEN FALSE ELSE engineThinking
    /\ UNCHANGED <<mounted, engineRef, phase, playerColor, turn, moveTimers>>
    /\ UNCHANGED <<runVars, queueVars, utilVars>>

PlayTick ==
    /\ TimePasses
    /\ UNCHANGED <<runVars, queueVars, playVars, utilVars>>

PlayNext ==
    \/ MountEffect
    \/ Unmount
    \/ HandleStart
    \/ HandlePieceDrop
    \/ HandleResign
    \/ HandlePlayAgain
    \/ DoEngineMove
    \/ PlayEngineOutput
    \/ PlayEngineInfo
    \/ PlayTimeout
    \/ PlayTick

PlaySpec == PlayInit /\ [][PlayNext]_vars

\* ------------------------------------------------------------------------
\* Properties of the play view's engine (PlaySpec)
\* ------------------------------------------------------------------------
Outstanding ==
    {c \in CallIds : calls[c].kind \in EvalKinds /\ Pending(c) /\ ~calls[c].stopped}

\* C6 (as claimed): on one engine client instance there are never two
\* evaluate-type requests that are both unresolved and not stopped.
C6_OneOutstanding == Cardinality(Outstanding) <= 1

\* ========================================================================
\* Pure functions applied to bounded inputs (UtilSpec)
\* ========================================================================
\* scores of a position from White's point of view: centipawns, or mate in
\* |value| moves delivered by White (value > 0) or by Black (value < 0)
WhiteScores ==
    {[kind |-> "cp", value |-> v] : v \in {-120, 0, 35}} \cup
    {[kind |-> "mate", value |-> v] : v \in {-2, 3}}

\* what the engine prints for "go": info lines carry the score from the
\* point of view of the side to move (UCI: "the score from the engine's
\* point of view"), then the bestmove line
EngineReply(sideToMove, score, move) ==
    << InfoLine(12, score.kind,
                IF sideToMove = "w" THEN score.value ELSE -score.value,
                <<move>>),
       BestMoveLine(move) >>

\* score-bearing info lines of one search
ParseLines ==
    {InfoLine(d, "cp", v, <<"e2e4">>) : d \in {11, 12}, v \in {30, 50}} \cup
    {InfoLine(12, "mate", 2, <<"g1f3">>)}

ParseInputs == UNION {[1..n -> ParseLines] : n \in 1..MaxParseLines}

UtilInputs ==
    {[fn |-> "parseEvaluation", lines |-> ls] : ls \in ParseInputs} \cup
    {[fn |-> "mate", mate |-> d] : d \in (-MaxMate)..MaxMate} \cup
    {[fn |-> "classifyMove", winPercentLoss |-> l, isBest |-> b] :
        l \in 0..MaxLoss, b \in BOOLEAN} \cup
    {[fn |-> "accuracyToRating", accuracy |-> a] : a \in 0..1000} \cup
    {[fn |-> "evaluate", sideToMove |-> c, score |-> sc, move |-> m] :
        c \in {"w", "b"}, sc \in WhiteScores, m \in BestMoves}

UtilInit ==
    /\ moves = <<>>
    /\ RunIdle
    /\ QueueIdle
    /\ EngineIdle("worker")
    /\ PlayIdle
    /\ fnIn \in UtilInputs
    /\ fnOut = <<>>

ApplyClassifyMove ==
    /\ fnOut = <<>>
    /\ fnIn.fn = "classifyMove"
    /\ fnOut' = <<classifyMove(fnIn.winPercentLoss, fnIn.isBest)>>
    /\ UNCHANGED <<fnIn, runVars, queueVars, engineVars, playVars>>

ApplyAccuracyToRating ==
    /\ fnOut = <<>>
    /\ fnIn.fn = "accuracyToRating"
    /\ fnOut' = <<accuracyToRating(fnIn.accuracy)>>
    /\ UNCHANGED <<fnIn, runVars, queueVars, engineVars, playVars>>

\* evaluate(fen): the engine's reply to "go" is collected and parsed
ApplyEvaluate ==
    /\ fnOut = <<>>
    /\ fnIn.fn = "evaluate"
    /\ fnOut' = <<parseEvaluation(EngineReply(fnIn.sideToMove, fnIn.score, fnIn.move))>>
    /\ UNCHANGED <<fnIn, runVars, queueVars, engineVars, playVars>>

\* parseEvaluation(lines) on the info lines of a search and its bestmove
ApplyParseEvaluation ==
    /\ fnOut = <<>>
    /\ fnIn.fn = "parseEvaluation"
    /\ fnOut' = <<parseEvaluation(Append(fnIn.lines, BestMoveLine("e2e4")))>>
    /\ UNCHANGED <<fnIn, runVars, queueVars, engineVars, playVars>>

\* parseEvaluation(lines) on "info depth 12 score mate d" and the bestmove
ApplyParseMate ==
    /\ fnOut = <<>>
    /\ fnIn.fn = "mate"
    /\ fnOut' = <<parseEvaluation(<<InfoLine(12, "mate", fnIn.mate, <<>>),
                                     BestMoveLine("e2e4")>>)>>
    /\ UNCHANGED <<fnIn, runVars, queueVars, engineVars, playVars>>

UtilNext ==
    \/ ApplyParseEvaluation
    \/ ApplyParseMate
    \/ ApplyClassifyMove
    \/ ApplyAccuracyToRating
    \/ ApplyEvaluate

UtilSpec == UtilInit /\ [][UtilNext]_vars

\* ------------------------------------------------------------------------
\* Properties of the pure functions (UtilSpec)
\* ------------------------------------------------------------------------
Returned(fn) == fnIn.fn = fn /\ fnOut # <<>>

\* C12: with isBest = false classifyMove returns great for L <= 2, good for
\* 2 < L <= 5, inaccuracy for 5 < L <= 10, mistake for 10 < L <= 20 and
\* blunder for L > 20; with isBest = true it returns best for every L.
C12_Thresholds ==
    Returned("classifyMove") =>
        LET L == fnIn.winPercentLoss
        IN  fnOut[1] = IF fnIn.isBest THEN "best"
                       ELSE IF L <= 200 THEN "great"
                       ELSE IF L > 200 /\ L <= 500 THEN "good"
                       ELSE IF L > 500 /\ L <= 1000 THEN "inaccuracy"
                       ELSE IF L > 1000 /\ L <= 2000 THEN "mistake"
                       ELSE "blunder"

\* a loss of exactly 20% is still a mistake
C12_Witness ==
    /\ Returned("classifyMove")
    /\ fnIn.winPercentLoss = 2000
    /\ ~fnIn.isBest
    /\ fnOut[1] = "mistake"

\* C13 (as claimed): whichever side is to move, the eval returned by
\* evaluate is the score from White's point of view, and a positive mate
\* value means White delivers mate.
C13_WhitePerspective ==
    Returned("evaluate") =>
        IF fnIn.score.kind = "cp"
        THEN fnOut[1].eval = fnIn.score.value /\ fnOut[1].mate = <<>>
        ELSE /\ fnOut[1].mate = <<fnIn.score.value>>
             /\ (fnOut[1].eval > 0) <=> (fnIn.score.value > 0)

\* C16: for every accuracy from 0 to 100 in steps of 0.1, accuracyToRating
\* lies in [200, 2900] and is a multiple of 25.
C16_RatingRange ==
    Returned("accuracyToRating") =>
        /\ fnOut[1] >= 200
        /\ fnOut[1] <= 2900
        /\ fnOut[1] % 25 = 0

\* the ceiling and the floor are both reached, and so is a rating between
C16_Witness ==
    /\ Returned("accuracyToRating")
    /\ \/ fnIn.accuracy = 1000 /\ fnOut[1] = 2900
       \/ fnIn.accuracy = 0 /\ fnOut[1] = 200
       \/ fnIn.accuracy = 500 /\ fnOut[1] = 700

\* the scan described for parseEvaluation: the score-bearing info lines in
\* arrival order, replacing the running evaluation when depth >= the highest
ArrivalScan(lines) == ScanInfo(NoEvaluation, lines)

\* C23 (as claimed): parseEvaluation returns the eval, mate, pv and depth of
\* the arrival-order scan; among lines sharing the maximum depth the values
\* of the one received last are returned.
C23_LastOfDeepest ==
    Returned("parseEvaluation") =>
        LET ref == ArrivalScan(fnIn.lines)
            out == fnOut[1]
        IN  /\ out.depth = ref.depth
            /\ out.eval = ref.eval
            /\ out.mate = ref.mate
            /\ out.pv = ref.pv

EvalOfMate(d) == parseEvaluation(<<InfoLine(12, "mate", d, <<>>)>>).eval

\* C25: mate in d parses to 100000 - d for d > 0 and to -100000 - d
\* otherwise; for 1 <= |d| <= MaxMate a mate for White is above, and a mate
\* for Black below, every centipawn score of magnitude <= MaxCp, and a
\* shorter mate is at least as extreme as a longer one for the same side.
C25_MateEval ==
    Returned("mate") =>
        LET d == fnIn.mate
            e == fnOut[1].eval
        IN  /\ e = IF d > 0 THEN 100000 - d ELSE -100000 - d
            /\ fnOut[1].mate = <<d>>
            /\ d >= 1 => \A c \in {-MaxCp, 0, MaxCp} : e > c
            /\ d <= -1 => \A c \in {-MaxCp, 0, MaxCp} : c > e
            /\ d > 1 => EvalOfMate(d - 1) >= e
            /\ d < -1 => EvalOfMate(d + 1) <= e

\* the longest mate for Black has been parsed
C25_Witness == Returned("mate") /\ fnIn.mate = -MaxMate /\ fnOut[1].eval = MaxMate - 100000

====
